---- MODULE Spec2Model ----
(***************************************************************************)
(* A model of the jstring crate: RawJavaString (src/src/raw_string.rs),    *)
(* the tagged two-word string handle, and the JavaString wrapper           *)
(* (src/src/lib.rs) built on it.                                           *)
(*                                                                         *)
(* A handle is modelled as the 2*WordBytes bytes it occupies in memory     *)
(* (#[repr(C)]: the word `len` first, the word `data` second).  A usize    *)
(* value is modelled as its WordBytes base-256 digits, most significant    *)
(* first, so that a 32-bit word never has to fit a bounded integer; the    *)
(* host's byte order is a variable fixed by Init.                          *)
(***************************************************************************)
EXTENDS Integers, Sequences, FiniteSets, TLC

\* mem::size_of::<usize>() of the modelled host: a 32-bit target.
WordBytes == 4

\* Longest single byte slice handed to a constructor.
MaxLen == 9
\* Number of handle variables the calling program holds.
MaxHandles == 2
\* Number of heap addresses the allocator can hand out.
MaxBufs == 3
\* Most slices in a list handed to from_bytes_array, and the longest of them.
MaxSlices == 2
MaxPart == 4
\* The edits a string goes through between its construction and its drop.
MaxEdits == 2

VARIABLES
    handles,        \* slot -> the handle's memory image, or NoHandle
    heap,           \* address -> [live, bytes]: the allocator's buffers
    last,           \* what the last operation was and what it did
    littleEndian,   \* the host's byte order (cfg(target_endian))
    halted,         \* the process died (a trap on a write through null)
    cloneOf,        \* slot -> the slot its handle was cloned from, or 0
    edits           \* how many edits the strings have gone through

vars == <<handles, heap, last, littleEndian, halted, cloneOf, edits>>

Slots == 1..MaxHandles
OneSlot == {1}
\* alloc(Layout { align: 2 }) returns even, non-null addresses.
HeapAddrs == {2 * i : i \in 1..MaxBufs}
NullPtr == 0
NoHandle == <<>>
FreeBuf == [live |-> FALSE, bytes |-> <<>>]

Reverse(s) == [i \in 1..Len(s) |-> s[Len(s) + 1 - i]]

RECURSIVE DigitsVal(_)
DigitsVal(d) ==
    IF d = <<>> THEN 0
    ELSE DigitsVal(SubSeq(d, 1, Len(d) - 1)) * 256 + d[Len(d)]

\* The usize with value n, as digits (n below 2^31).
ToWord(n) == [i \in 1..WordBytes |-> (n \div (256 ^ (WordBytes - i))) % 256]

\* A value the model's integers cannot hold: at least 2^(8*(WordBytes-1)),
\* larger than every address and every length of the model.
Huge == 256 ^ (WordBytes - 1)

\* The number a usize denotes; a word whose top digit is set saturates to Huge.
UsizeVal(d) == IF d[1] = 0 THEN DigitsVal(d) ELSE Huge

\* usize::to_be / usize::from_be: a byte swap on a little-endian host, the
\* identity on a big-endian one.
to_be(x) == IF littleEndian THEN Reverse(x) ELSE x
from_be(x) == IF littleEndian THEN Reverse(x) ELSE x

\* How the host lays a usize out in memory, and how it reads one back.
MemOf(x) == IF littleEndian THEN Reverse(x) ELSE x
ValOf(m) == IF littleEndian THEN Reverse(m) ELSE m

\* struct RawJavaString { len: usize, data: NonNull<u8> }, #[repr(C)].
Store(h) == MemOf(h.len) \o MemOf(h.data)
Load(m) ==
    [len  |-> ValOf(SubSeq(m, 1, WordBytes)),
     data |-> ValOf(SubSeq(m, WordBytes + 1, 2 * WordBytes))]

\* A capacity that forgets the byte the tag takes.
max_intern_len_whole == WordBytes * 2

max_intern_len == WordBytes * 2 - 1

read_ptr(h) == from_be(h.data)

\* A checked store that leaves the word in host byte order.
write_ptr_native(h, ptr) ==
    IF ptr = [i \in 1..WordBytes |-> 0]
    THEN [panics |-> TRUE, h |-> h]
    ELSE [panics |-> FALSE, h |-> [h EXCEPT !.data = ptr]]

\* write_ptr: NonNull::new(to_be(ptr)).expect(..) panics on null, a word
\* that is zero before the swap exactly when it is zero after it.
write_ptr(h, ptr) ==
    IF to_be(ptr) = [i \in 1..WordBytes |-> 0]
    THEN [panics |-> TRUE, h |-> h]
    ELSE [panics |-> FALSE, h |-> [h EXCEPT !.data = to_be(ptr)]]

\* A store in host byte order.
write_ptr_host_order(h, ptr) == [h EXCEPT !.data = ptr]

write_ptr_unchecked(h, ptr) == [h EXCEPT !.data = to_be(ptr)]

\* (read_ptr() as usize) % 2 == 1: the parity of a base-256 number is the
\* parity of its least significant digit.
is_interned(h) == (read_ptr(h)[WordBytes] % 2) = 1

\* x >> 1 on a usize: every digit is halved and takes the low bit of the
\* digit above it.
ShiftRight1(x) ==
    [i \in 1..WordBytes |->
        (x[i] \div 2) + (IF i > 1 /\ x[i - 1] % 2 = 1 THEN 128 ELSE 0)]

\* A length that shifts the whole decoded word, without the cast to u8.
len_whole_word(h) ==
    IF is_interned(h) THEN UsizeVal(ShiftRight1(read_ptr(h)))
    ELSE UsizeVal(h.len)

\* `as u8` keeps the least significant digit.
len(h) ==
    IF is_interned(h) THEN read_ptr(h)[WordBytes] \div 2
    ELSE UsizeVal(h.len)

\* Where get_bytes points: into the handle itself, or at a heap address.
ViewInBounds(m, hp) ==
    LET h == Load(m) IN
    IF is_interned(h) THEN len(h) <= 2 * WordBytes
    ELSE LET a == UsizeVal(read_ptr(h)) IN
         /\ a \in HeapAddrs
         /\ hp[a].live
         /\ len(h) <= Len(hp[a].bytes)

\* slice::from_raw_parts(ptr, len): the bytes the view covers.  A byte that
\* lies outside the object the pointer points into reads as g.
get_bytes(m, hp, g) ==
    LET h == Load(m) IN
    IF is_interned(h)
    THEN [i \in 1..len(h) |-> IF i <= Len(m) THEN m[i] ELSE g]
    ELSE LET a == UsizeVal(read_ptr(h))
             b == IF a \in HeapAddrs /\ hp[a].live THEN hp[a].bytes ELSE <<>>
         IN [i \in 1..len(h) |-> IF i <= Len(b) THEN b[i] ELSE g]

new == [len |-> ToWord(0), data |-> to_be(ToWord(1))]

RECURSIVE SumLens(_)
SumLens(l) == IF l = <<>> THEN 0 ELSE Len(Head(l)) + SumLens(Tail(l))

\* The byte the copy loop leaves at offset o of the destination: copy i reads
\* n bytes from slice i and writes them at offsets (i-1)*n .. i*n - 1.
CopyByte(bytes_list, n, o, g) ==
    LET src == bytes_list[(o \div n) + 1]
        j   == o % n
    IN IF j < Len(src) THEN src[j + 1] ELSE g

\* from_bytes_array_inline, given what alloc returned (ptr) and the byte g
\* that memory past the end of a source slice holds.
from_bytes_array_inline(bytes_list, ptr, g) ==
    LET n       == SumLens(bytes_list)
        k       == Len(bytes_list)
        inline  == n <= max_intern_len
        value   == IF inline THEN ToWord((n * 2) + 1) ELSE ToWord(ptr)
        new0    == IF inline THEN new ELSE [new EXCEPT !.len = ToWord(n)]
        mem0    == Store(write_ptr_unchecked(new0, value))
        written == k * n
    IN [mem      |-> IF inline
                     THEN [i \in 1..(2 * WordBytes) |->
                              IF i - 1 < written
                              THEN CopyByte(bytes_list, n, i - 1, g)
                              ELSE mem0[i]]
                     ELSE mem0,
        buf      |-> IF inline THEN <<>>
                     ELSE [i \in 1..n |-> CopyByte(bytes_list, n, i - 1, g)],
        onHeap   |-> ~inline,
        oobRead  |-> n > 0 /\ \E i \in 1..k : Len(bytes_list[i]) < n,
        oobWrite |-> written > n,
        clobber  |-> inline /\ written > max_intern_len,
        nullWrite |-> ~inline /\ ptr = NullPtr]

\* A copy of the two words, sharing whatever they point at.
clone_shallow(m, hp, ptr, g) ==
    [mem |-> m, buf |-> <<>>, onHeap |-> FALSE, oobRead |-> FALSE,
     oobWrite |-> FALSE, clobber |-> FALSE, nullWrite |-> FALSE]

\* impl Clone: Self::from_bytes(self.get_bytes()).
clone(m, hp, ptr, g) == from_bytes_array_inline(<<get_bytes(m, hp, g)>>, ptr, 0)

\* A drop that forgets the value: nothing is handed to dealloc.
drop_forget(m, hp) == [hp |-> hp, freed |-> {}, badFree |-> FALSE]

\* impl Drop: what dealloc is asked to free.  freed is the set of addresses
\* released; badFree says dealloc was handed something alloc never returned
\* with that layout.
drop(m, hp) ==
    LET h == Load(m)
        a == UsizeVal(read_ptr(h))
        isLive == a \in HeapAddrs /\ hp[a].live
    IN IF is_interned(h)
       THEN [hp |-> hp, freed |-> {}, badFree |-> FALSE]
       ELSE [hp      |-> IF isLive THEN [hp EXCEPT ![a] = FreeBuf] ELSE hp,
             freed   |-> IF isLive THEN {a} ELSE {},
             badFree |-> ~isLive \/ Len(hp[a].bytes) # len(h)]

(***************************************************************************)
(* The inputs: byte slices cut from short periodic patterns.               *)
(***************************************************************************)
\* The periods the input slices repeat.
Patterns == {<<0>>, <<1>>, <<2, 0>>, <<1, 2>>}
Prefix(p, n) == [i \in 1..n |-> p[((i - 1) % Len(p)) + 1]]
Slices == {Prefix(p, n) : p \in Patterns, n \in 0..MaxLen}
\* The slices a list handed to from_bytes_array is made of.
PartPatterns == {<<0>>, <<2, 1>>}
Parts == {Prefix(p, n) : p \in PartPatterns, n \in 0..MaxPart}
ByteLists == UNION {[1..k -> Parts] : k \in 0..MaxSlices}
\* The slices of the several-handle program: one that fills the inline
\* capacity and one that is a byte too long for it.
LifeSlices ==
    {Prefix(<<2, 0>>, max_intern_len), Prefix(<<0, 2>>, max_intern_len + 1)}
\* What a read past the end of a source slice may find.
GarbageBytes == {0, 2}

FreeAddrs(hp) == {a \in HeapAddrs : ~hp[a].live}
Live(s) == handles[s] # NoHandle

\* The other end of s's clone relation: the slot s was cloned from, else a
\* slot cloned from s, else 0.
Partner(s) ==
    IF cloneOf[s] # 0 THEN cloneOf[s]
    ELSE IF \E t \in Slots : cloneOf[t] = s
         THEN CHOOSE t \in Slots : cloneOf[t] = s
         ELSE 0

NoOp ==
    [op |-> "init", slot |-> 0, src |-> 0, arg |-> <<>>, ptr |-> NullPtr,
     oobRead |-> FALSE, oobWrite |-> FALSE, clobber |-> FALSE,
     nullWrite |-> FALSE, freed |-> {}, badFree |-> FALSE,
     n |-> 0, err |-> FALSE, panicked |-> FALSE]

Init ==
    /\ littleEndian \in BOOLEAN
    /\ handles = [s \in Slots |-> NoHandle]
    /\ heap = [a \in HeapAddrs |-> FreeBuf]
    /\ last = NoOp
    /\ halted = FALSE
    /\ cloneOf = [s \in Slots |-> 0]
    /\ edits = 0

\* alloc::alloc::alloc(layout): the addresses it may return for a request
\* that from_bytes_array_inline makes for bytes_list (none for an inline one).
AllocChoices(bytes_list, hp) ==
    IF SumLens(bytes_list) <= max_intern_len THEN {NullPtr} ELSE FreeAddrs(hp)

GarbageChoices(bytes_list) ==
    IF \E i \in 1..Len(bytes_list) : Len(bytes_list[i]) < SumLens(bytes_list)
    THEN GarbageBytes ELSE {0}

\* The heap after a construction that was handed ptr.
HeapWith(hp, r, ptr) ==
    IF r.onHeap /\ ptr \in HeapAddrs
    THEN [hp EXCEPT ![ptr] = [live |-> TRUE, bytes |-> r.buf]]
    ELSE hp

\* let s = RawJavaString::new();
New(s) ==
    /\ ~halted
    /\ ~Live(s)
    /\ handles' = [handles EXCEPT ![s] = Store(new)]
    /\ last' = [NoOp EXCEPT !.op = "new", !.slot = s]
    /\ UNCHANGED <<heap, littleEndian, halted, cloneOf, edits>>

\* A construction into an unbound variable s.
Construct(s, bytes_list, opname) ==
    /\ ~halted
    /\ ~Live(s)
    /\ \E ptr \in AllocChoices(bytes_list, heap), g \in GarbageChoices(bytes_list) :
         \E r \in {from_bytes_array_inline(bytes_list, ptr, g)} :
         /\ handles' = [handles EXCEPT ![s] = r.mem]
         /\ heap' = HeapWith(heap, r, ptr)
         /\ last' = [NoOp EXCEPT !.op = opname, !.slot = s, !.arg = bytes_list,
                                 !.ptr = ptr, !.oobRead = r.oobRead,
                                 !.oobWrite = r.oobWrite, !.clobber = r.clobber]
    /\ UNCHANGED <<littleEndian, halted, cloneOf, edits>>

\* let s = RawJavaString::from_bytes(bytes);
FromBytes(s, bytes) == Construct(s, <<bytes>>, "from_bytes")

\* let s = RawJavaString::from_bytes_array(bytes_list);
FromBytesArray(s, bytes_list) == Construct(s, bytes_list, "from_bytes_array")

\* s.set_bytes(bytes): `*self = Self::from_bytes(bytes)` builds the new value
\* while the old one is still alive, then drops the old one in place.
SetBytes(s, bytes) ==
    /\ ~halted
    /\ Live(s)
    /\ \E ptr \in AllocChoices(<<bytes>>, heap) :
         \E r \in {from_bytes_array_inline(<<bytes>>, ptr, 0)} :
         \E d \in {drop(handles[s], HeapWith(heap, r, ptr))} :
         /\ handles' = [handles EXCEPT ![s] = r.mem]
         /\ heap' = d.hp
         /\ last' = [NoOp EXCEPT !.op = "set_bytes", !.slot = s, !.arg = <<bytes>>,
                                 !.src = Partner(s), !.ptr = ptr,
                                 !.freed = d.freed, !.badFree = d.badFree]
    /\ UNCHANGED <<littleEndian, halted, cloneOf, edits>>

\* let t = s.clone();
Clone(s, t) ==
    /\ ~halted
    /\ Live(s) /\ ~Live(t)
    /\ len(Load(handles[s])) <= MaxLen
    /\ \E g \in (IF ViewInBounds(handles[s], heap) THEN {0} ELSE GarbageBytes) :
         \E ptr \in AllocChoices(<<get_bytes(handles[s], heap, g)>>, heap) :
           \E r \in {clone(handles[s], heap, ptr, g)} :
           /\ handles' = [handles EXCEPT ![t] = r.mem]
           /\ heap' = HeapWith(heap, r, ptr)
           /\ last' = [NoOp EXCEPT !.op = "clone", !.slot = t, !.src = s,
                                   !.arg = <<get_bytes(handles[s], heap, g)>>,
                                   !.ptr = ptr,
                                   !.oobRead = ~ViewInBounds(handles[s], heap)]
    /\ cloneOf' = [cloneOf EXCEPT ![t] = s]
    /\ UNCHANGED <<littleEndian, halted, edits>>

\* drop(s): the variable goes out of scope.
Drop(s) ==
    /\ ~halted
    /\ Live(s)
    /\ \E d \in {drop(handles[s], heap)} :
         /\ handles' = [handles EXCEPT ![s] = NoHandle]
         /\ heap' = d.hp
         /\ last' = [NoOp EXCEPT !.op = "drop", !.slot = s, !.arg = <<handles[s]>>,
                                 !.src = Partner(s),
                                 !.freed = d.freed, !.badFree = d.badFree]
    /\ cloneOf' = [t \in Slots |-> IF t = s \/ cloneOf[t] = s THEN 0 ELSE cloneOf[t]]
    /\ UNCHANGED <<littleEndian, halted, edits>>

\* let s = RawJavaString::from_bytes(bytes) when alloc has no memory to give
\* and returns null.  The code goes on to copy through the pointer: the copy
\* faults and the program dies, or it does not and the handle is returned.
FromBytesNoMemory(s, bytes) ==
    /\ ~halted
    /\ ~Live(s)
    /\ Len(bytes) > max_intern_len
    /\ \E r \in {from_bytes_array_inline(<<bytes>>, NullPtr, 0)}, faults \in BOOLEAN :
         /\ handles' = IF faults THEN handles ELSE [handles EXCEPT ![s] = r.mem]
         /\ halted' = faults
         /\ last' = [NoOp EXCEPT !.op = "from_bytes", !.slot = s, !.arg = <<bytes>>,
                                 !.ptr = NullPtr, !.nullWrite = r.nullWrite]
    /\ UNCHANGED <<heap, littleEndian, cloneOf, edits>>

\* The temporary that the right-hand side of an assignment is built in.
TempSlot == 2
\* A set_bytes has built its new value and has not yet assigned it.
Replacing == last.op = "set_bytes_built"

\* s.set_bytes(bytes), first half: `Self::from_bytes(bytes)`, the right-hand
\* side of `*self = ..`, is evaluated into a temporary while *self is as it
\* was.
SetBytesBuild(s, bytes) ==
    /\ ~halted
    /\ Live(s) /\ ~Live(TempSlot)
    /\ \E ptr \in AllocChoices(<<bytes>>, heap) :
         \E r \in {from_bytes_array_inline(<<bytes>>, ptr, 0)} :
         /\ handles' = [handles EXCEPT ![TempSlot] = r.mem]
         /\ heap' = HeapWith(heap, r, ptr)
         /\ last' = [NoOp EXCEPT !.op = "set_bytes_built", !.slot = TempSlot,
                                 !.src = s, !.arg = <<bytes>>, !.ptr = ptr]
    /\ UNCHANGED <<littleEndian, halted, cloneOf, edits>>

\* s.set_bytes(bytes), second half: the assignment drops the old value of
\* *self in place and moves the temporary into it.
SetBytesAssign(s) ==
    /\ ~halted
    /\ Replacing /\ last.src = s
    /\ \E d \in {drop(handles[s], heap)} :
         /\ handles' = [handles EXCEPT ![s] = handles[TempSlot],
                                       ![TempSlot] = NoHandle]
         /\ heap' = d.hp
         /\ last' = [NoOp EXCEPT !.op = "set_bytes", !.slot = s, !.arg = last.arg,
                                 !.src = Partner(s), !.ptr = last.ptr,
                                 !.freed = d.freed, !.badFree = d.badFree]
    /\ UNCHANGED <<littleEndian, halted, cloneOf, edits>>

\* The discriminant values handed to write_ptr: tags and addresses, small
\* and with high bytes set, and null.
PtrWords == {<<a, 0, b, c>> : a \in {0, 254}, b \in {0, 3}, c \in {0, 1, 2}}

\* The slices of the program that stores discriminants: every inline length
\* of every pattern, and a heap-sized one.
TagSlices == {b \in Slices : Len(b) <= max_intern_len} \cup LifeSlices

\* s.write_ptr(ptr);
WritePtr(s, ptr) ==
    /\ ~halted
    /\ Live(s)
    /\ \E r \in {write_ptr(Load(handles[s]), ptr)} :
         /\ handles' = [handles EXCEPT ![s] = Store(r.h)]
         /\ last' = [NoOp EXCEPT !.op = "write_ptr", !.slot = s, !.arg = <<ptr>>,
                                 !.panicked = r.panics]
    /\ UNCHANGED <<heap, littleEndian, halted, cloneOf, edits>>

\* A program that holds one handle and builds, replaces and drops it.
Next ==
    \/ \E s \in OneSlot : New(s)
    \/ \E s \in OneSlot, b \in Slices : FromBytes(s, b)
    \/ \E s \in OneSlot, l \in ByteLists : FromBytesArray(s, l)
    \/ \E s \in OneSlot, b \in Slices : SetBytes(s, b)
    \/ \E s \in OneSlot : Drop(s)

Spec == Init /\ [][Next]_vars

\* A program that holds several handles, built from single slices, and
\* clones, replaces and drops them.
NextLife ==
    \/ \E s \in Slots, b \in LifeSlices : FromBytes(s, b)
    \/ \E s \in Slots, b \in LifeSlices : SetBytes(s, b)
    \/ \E s, t \in Slots : Clone(s, t)
    \/ \E s \in Slots : Drop(s)

SpecLife == Init /\ [][NextLife]_vars

\* A program that holds one handle built from a single slice.
NextBytes ==
    \/ \E s \in OneSlot : New(s)
    \/ \E s \in OneSlot, b \in Slices : FromBytes(s, b)
    \/ \E s \in OneSlot, b \in Slices : SetBytes(s, b)
    \/ \E s \in OneSlot : Drop(s)

SpecBytes == Init /\ [][NextBytes]_vars

\* The same program, seen between the two halves of set_bytes as well: while
\* a replace is under way nothing else runs.
NextReplace ==
    \/ ~Replacing /\ \E s \in OneSlot, b \in Slices : FromBytes(s, b)
    \/ ~Replacing /\ \E s \in OneSlot, b \in Slices : SetBytesBuild(s, b)
    \/ \E s \in OneSlot : SetBytesAssign(s)
    \/ ~Replacing /\ \E s \in OneSlot : Drop(s)

SpecReplace == Init /\ [][NextReplace]_vars

\* A program that builds one handle and stores discriminants into it.
NextPtr ==
    \/ \E s \in OneSlot : New(s)
    \/ \E s \in OneSlot, b \in TagSlices : FromBytes(s, b)
    \/ \E s \in OneSlot, v \in PtrWords : WritePtr(s, v)
    \/ \E s \in OneSlot : Drop(s)

SpecPtr == Init /\ [][NextPtr]_vars

\* The same program on a machine whose allocator may run out of memory.
NextNoMemory ==
    \/ \E s \in OneSlot : New(s)
    \/ \E s \in OneSlot, b \in Slices : FromBytes(s, b)
    \/ \E s \in OneSlot, b \in Slices : FromBytesNoMemory(s, b)
    \/ \E s \in OneSlot : Drop(s)

SpecNoMemory == Init /\ [][NextNoMemory]_vars

(***************************************************************************)
(* JavaString (src/src/lib.rs): the wrapper that keeps UTF-8 text in a     *)
(* RawJavaString and rebuilds it on every edit.                            *)
(***************************************************************************)
\* core::str::utf8_char_width: the length a sequence has by its first byte.
utf8_char_width(b) ==
    IF b < 128 THEN 1
    ELSE IF b >= 194 /\ b <= 223 THEN 2
    ELSE IF b >= 224 /\ b <= 239 THEN 3
    ELSE IF b >= 240 /\ b <= 244 THEN 4
    ELSE 0

IsCont(b) == b >= 128 /\ b <= 191

\* The range the second byte of a sequence starting with b must lie in.
SecondOk(b, c) ==
    IF b = 224 THEN c >= 160 /\ c <= 191
    ELSE IF b = 237 THEN c >= 128 /\ c <= 159
    ELSE IF b = 240 THEN c >= 144 /\ c <= 191
    ELSE IF b = 244 THEN c >= 128 /\ c <= 143
    ELSE IsCont(c)

\* core::str::from_utf8(v).is_ok(): v, read from its i-th byte on, is
\* well-formed UTF-8.
RECURSIVE ValidFrom(_, _)
ValidFrom(v, i) ==
    IF i > Len(v) THEN TRUE
    ELSE LET w == utf8_char_width(v[i]) IN
         /\ w # 0
         /\ i + w - 1 <= Len(v)
         /\ (w >= 2) => SecondOk(v[i], v[i + 1])
         /\ \A j \in (i + 2)..(i + w - 1) : IsCont(v[j])
         /\ ValidFrom(v, i + w)

ValidUtf8(v) == ValidFrom(v, 1)

\* str::is_char_boundary(index).
is_char_boundary(v, index) ==
    IF index = 0 THEN TRUE
    ELSE IF index >= Len(v) THEN index = Len(v)
    ELSE ~IsCont(v[index + 1])

\* char::len_utf8 of the char that chars().next() decodes at byte offset idx.
\* On text that is not UTF-8 the decoder's answer is not defined: any width.
NextCharWidths(v, idx) ==
    IF ValidUtf8(v) THEN {utf8_char_width(v[idx + 1])} ELSE 1..4

\* char::len_utf8 of the char that chars().rev().next() decodes: the last
\* byte and the continuation bytes before it.
RECURSIVE TrailingWidth(_, _)
TrailingWidth(v, i) ==
    IF i > 1 /\ IsCont(v[i]) THEN 1 + TrailingWidth(v, i - 1) ELSE 1

LastCharWidths(v) ==
    IF ValidUtf8(v) THEN {TrailingWidth(v, Len(v))} ELSE 1..4

\* char::to_string(): the UTF-8 encoding of a code point.
EncodeUtf8(c) ==
    IF c < 128 THEN <<c>>
    ELSE IF c < 2048 THEN <<192 + (c \div 64), 128 + (c % 64)>>
    ELSE IF c < 65536
         THEN <<224 + (c \div 4096), 128 + ((c \div 64) % 64), 128 + (c % 64)>>
    ELSE <<240 + (c \div 262144), 128 + ((c \div 4096) % 64),
           128 + ((c \div 64) % 64), 128 + (c % 64)>>

\* JavaString::from_utf8(bytes), given what alloc returned: the raw string
\* is built first and validated after; on Err it is dropped again.
from_utf8_unvalidated(bytes, ptr, hp) ==
    LET r == from_bytes_array_inline(<<bytes>>, ptr, 0) IN
    [ok |-> TRUE, mem |-> r.mem, hp |-> HeapWith(hp, r, ptr), freed |-> {}]

from_utf8(bytes, ptr, hp) ==
    LET r  == from_bytes_array_inline(<<bytes>>, ptr, 0)
        h1 == HeapWith(hp, r, ptr)
    IN IF ValidUtf8(get_bytes(r.mem, h1, 0))
       THEN [ok |-> TRUE, mem |-> r.mem, hp |-> h1, freed |-> {}]
       ELSE LET d == drop(r.mem, h1) IN
            [ok |-> FALSE, mem |-> NoHandle, hp |-> d.hp, freed |-> d.freed]

\* truncate(new_len) on content v: &self.as_bytes()[0..new_len] panics when
\* new_len is past the end; else the lists from_bytes is handed.
truncate(v, new_len) ==
    IF new_len > Len(v) THEN [panics |-> TRUE, lists |-> {}]
    ELSE [panics |-> FALSE, lists |-> {<<SubSeq(v, 1, new_len)>>}]

\* pop() on a content v that is not empty.
pop(v) ==
    [panics |-> \A w \in LastCharWidths(v) : w > Len(v),
     lists  |-> {<<SubSeq(v, 1, Len(v) - w)>> :
                    w \in {x \in LastCharWidths(v) : x <= Len(v)}}]

\* remove(idx) on content v: self[idx..] panics off a char boundary or past
\* the end, the match panics at the end, and [next..] panics past the end.
remove(v, idx) ==
    IF idx >= Len(v) \/ ~is_char_boundary(v, idx)
    THEN [panics |-> TRUE, lists |-> {}]
    ELSE LET ws == {w \in NextCharWidths(v, idx) : idx + w <= Len(v)} IN
         [panics |-> ws = {},
          lists  |-> {<<SubSeq(v, 1, idx), SubSeq(v, idx + w + 1, Len(v))>> :
                         w \in ws}]

\* push_str(string) on content v.
push_str(v, string) == [panics |-> FALSE, lists |-> {<<v, string>>}]

\* The text inputs: prefixes of repeated characters, whole or cut.
StrPatterns ==
    {<<97>>, <<195, 169>>, <<97, 195, 169>>,
     <<240, 159, 146, 150>>, <<0, 159, 146, 150>>}
Utf8Inputs == {Prefix(p, n) : p \in StrPatterns, n \in 0..MaxLen}
\* The &str values: text the type system guarantees to be UTF-8.
Texts == {v \in Utf8Inputs : ValidUtf8(v)}
\* The &str arguments of push_str.
Strs == {v \in Texts : Len(v) <= MaxPart}
\* The char arguments: 'a', U+00E9, U+1F496.
Chars == {97, 233, 128150}

\* The bytes as_bytes() shows for slot s; g stands for what lies outside the
\* storage a damaged handle points into.
Content(s, g) == get_bytes(handles[s], heap, g)
ContentGarbage(s) ==
    IF ViewInBounds(handles[s], heap) THEN {0} ELSE GarbageBytes

\* let r = JavaString::from_utf8(bytes): Ok binds a new handle to the unbound
\* variable s; Err binds none.
FromUtf8(s, bytes) ==
    /\ ~halted
    /\ \E ptr \in AllocChoices(<<bytes>>, heap) :
         \E r \in {from_utf8(bytes, ptr, heap)} :
         /\ r.ok => ~Live(s)
         /\ handles' = IF r.ok THEN [handles EXCEPT ![s] = r.mem] ELSE handles
         /\ heap' = r.hp
         /\ last' = [NoOp EXCEPT !.op = "from_utf8", !.slot = s, !.arg = <<bytes>>,
                                 !.ptr = ptr, !.err = ~r.ok, !.freed = r.freed]
         /\ edits' = IF r.ok THEN 0 ELSE edits
    /\ UNCHANGED <<littleEndian, halted, cloneOf>>

\* let s = JavaString::from(string);
FromStr(s, string) ==
    /\ ~halted
    /\ ~Live(s)
    /\ \E ptr \in AllocChoices(<<string>>, heap) :
         \E r \in {from_bytes_array_inline(<<string>>, ptr, 0)} :
         /\ handles' = [handles EXCEPT ![s] = r.mem]
         /\ heap' = HeapWith(heap, r, ptr)
         /\ last' = [NoOp EXCEPT !.op = "from", !.slot = s, !.arg = <<string>>,
                                 !.ptr = ptr]
         /\ edits' = 0
    /\ UNCHANGED <<littleEndian, halted, cloneOf>>

\* An edit of the string in slot s: the operation panics and leaves the
\* string alone, or `self.data = RawJavaString::from_..(..)` builds the new
\* raw string and then drops the old one.
Edit(s, opname, n, v, outcome) ==
    \/ /\ outcome.panics
       /\ last' = [NoOp EXCEPT !.op = opname, !.slot = s, !.arg = <<v>>, !.n = n,
                               !.panicked = TRUE]
       /\ UNCHANGED <<handles, heap, littleEndian, halted, cloneOf, edits>>
    \/ \E bytes_list \in outcome.lists :
         \E ptr \in AllocChoices(bytes_list, heap), g \in GarbageChoices(bytes_list) :
           \E r \in {from_bytes_array_inline(bytes_list, ptr, g)} :
           \E d \in {drop(handles[s], HeapWith(heap, r, ptr))} :
           /\ handles' = [handles EXCEPT ![s] = r.mem]
           /\ heap' = d.hp
           /\ last' = [NoOp EXCEPT !.op = opname, !.slot = s, !.arg = <<v>>, !.n = n,
                                   !.ptr = ptr, !.oobRead = r.oobRead,
                                   !.oobWrite = r.oobWrite, !.clobber = r.clobber,
                                   !.freed = d.freed, !.badFree = d.badFree]
           /\ edits' = edits + 1
           /\ UNCHANGED <<littleEndian, halted, cloneOf>>

Editable(s) ==
    ~halted /\ Live(s) /\ edits < MaxEdits /\ len(Load(handles[s])) <= MaxLen

\* s.push_str(string);
PushStr(s, string) ==
    /\ Editable(s)
    /\ len(Load(handles[s])) + Len(string) <= MaxLen
    /\ \E g \in ContentGarbage(s) :
         Edit(s, "push_str", Len(string), Content(s, g),
              push_str(Content(s, g), string))

\* s.push(ch): self.push_str(&ch.to_string()).
Push(s, ch) ==
    /\ Editable(s)
    /\ len(Load(handles[s])) + Len(EncodeUtf8(ch)) <= MaxLen
    /\ \E g \in ContentGarbage(s) :
         Edit(s, "push", ch, Content(s, g),
              push_str(Content(s, g), EncodeUtf8(ch)))

\* s.truncate(new_len);
Truncate(s, new_len) ==
    /\ Editable(s)
    /\ \E g \in ContentGarbage(s) :
         Edit(s, "truncate", new_len, Content(s, g), truncate(Content(s, g), new_len))

\* s.pop(): None, and nothing done, on the empty string.
Pop(s) ==
    /\ Editable(s)
    /\ \E g \in ContentGarbage(s) :
         IF Content(s, g) = <<>>
         THEN /\ last' = [NoOp EXCEPT !.op = "pop", !.slot = s, !.arg = <<(<<>>)>>]
              /\ UNCHANGED <<handles, heap, littleEndian, halted, cloneOf, edits>>
         ELSE Edit(s, "pop", 0, Content(s, g), pop(Content(s, g)))

\* s.remove(idx);
Remove(s, idx) ==
    /\ Editable(s)
    /\ \E g \in ContentGarbage(s) :
         Edit(s, "remove", idx, Content(s, g), remove(Content(s, g), idx))

\* A program that holds a string: it builds it from text, edits it and
\* drops it.
NextStr ==
    \/ \E s \in OneSlot, t \in Texts : FromStr(s, t)
    \/ \E s \in OneSlot, t \in Strs : PushStr(s, t)
    \/ \E s \in OneSlot, c \in Chars : Push(s, c)
    \/ \E s \in OneSlot, n \in 0..(MaxLen + 1) : Truncate(s, n)
    \/ \E s \in OneSlot : Pop(s)
    \/ \E s \in OneSlot, i \in 0..(MaxLen + 1) : Remove(s, i)
    \/ \E s \in OneSlot : Drop(s)

SpecStr == Init /\ [][NextStr]_vars

\* A program that validates bytes while it may hold a string.
NextUtf8 ==
    \/ \E s \in OneSlot, b \in Utf8Inputs : FromUtf8(s, b)
    \/ \E s \in OneSlot : Drop(s)

SpecUtf8 == Init /\ [][NextUtf8]_vars

(***************************************************************************)
(* What the checks read off a state.                                       *)
(***************************************************************************)
\* The handle the last operation built or changed, as the struct.
LastHandle == Load(handles[last.slot])
\* The bytes a caller sees through get_bytes on slot s.
View(s) == get_bytes(handles[s], heap, 0)
\* The slice the last single-slice operation was given.
LastBytes == last.arg[1]

\* C1: the byte view of the handle from_bytes(b) returns is exactly b, for
\* an inline-sized b and for a heap-sized b alike, and the view lies inside
\* the storage the handle owns.
C1_RoundTrip ==
    (last.op = "from_bytes") =>
        /\ ViewInBounds(handles[last.slot], heap)
        /\ Len(View(last.slot)) = Len(LastBytes)
        /\ \A i \in 1..Len(LastBytes) : View(last.slot)[i] = LastBytes[i]

\* A heap-sized slice holding both byte values went through from_bytes.
C1_Witness ==
    /\ last.op = "from_bytes"
    /\ Len(LastBytes) > 2 * WordBytes - 1
    /\ \E i, j \in 1..Len(LastBytes) : LastBytes[i] # LastBytes[j]
    /\ View(last.slot) = LastBytes

\* C2: the handle from_bytes(b) returns, or set_bytes(b) leaves, is inline
\* exactly when b has at most 2W-1 bytes; the empty slice gives the inline
\* handle of length 0.
C2_ModeCorrect ==
    (last.op \in {"from_bytes", "set_bytes"}) =>
        /\ is_interned(LastHandle) <=> (Len(LastBytes) <= 2 * WordBytes - 1)
        /\ (LastBytes = <<>>) => (is_interned(LastHandle) /\ len(LastHandle) = 0)

\* set_bytes left a handle of exactly the inline capacity, and it is inline.
C2_Witness ==
    /\ last.op = "set_bytes"
    /\ Len(LastBytes) = 2 * WordBytes - 1
    /\ is_interned(LastHandle)

RECURSIVE Concat(_)
Concat(l) == IF l = <<>> THEN <<>> ELSE Head(l) \o Concat(Tail(l))

\* C3: the byte view of from_bytes_array([s1..sk]) is s1 followed by s2 ...
\* followed by sk, for every list of slices.
C3_Concatenation ==
    (last.op = "from_bytes_array") =>
        /\ ViewInBounds(handles[last.slot], heap)
        /\ View(last.slot) = Concat(last.arg)

\* The slots whose handle is heap-backed and points at address a.
OwnersOf(a) ==
    {s \in Slots : /\ Live(s)
                   /\ ~is_interned(Load(handles[s]))
                   /\ read_ptr(Load(handles[s])) = ToWord(a)}

\* C4: the outstanding buffers are exactly those live heap-backed handles
\* point at, one handle each; nothing is freed that is not outstanding, and
\* dropping an inline handle frees nothing.
C4_SingleOwnership ==
    /\ \A a \in HeapAddrs : heap[a].live <=> (Cardinality(OwnersOf(a)) = 1)
    /\ \A a \in HeapAddrs : Cardinality(OwnersOf(a)) <= 1
    /\ \A s \in Slots :
         (Live(s) /\ ~is_interned(Load(handles[s]))) =>
             \E a \in HeapAddrs : s \in OwnersOf(a)
    /\ ~last.badFree
    /\ (last.op = "drop" /\ is_interned(Load(last.arg[1]))) => last.freed = {}

\* C9: the discriminant word of a live handle is never all zero.
C9_NonZeroDiscriminant ==
    \A s \in Slots : Live(s) => Load(handles[s]).data # ToWord(0)

\* C10: no copy step of a construction reads past its source slice, writes
\* outside the bytes the content is to occupy, or overwrites the tag byte.
C10_BoundedCopy ==
    (last.op \in {"from_bytes", "from_bytes_array"}) =>
        (~last.oobRead /\ ~last.oobWrite /\ ~last.clobber)

\* C5: a clone has the bytes of its original, and replacing or dropping one
\* handle leaves the bytes seen through every other handle as they were.
C5_DeepCopy ==
    [][LET t == last'.slot
           o == last'.src
       IN
       /\ (last'.op = "clone") =>
             /\ ViewInBounds(handles'[t], heap')
             /\ ViewInBounds(handles'[o], heap')
             /\ get_bytes(handles'[t], heap', 0) = View(o)
             /\ get_bytes(handles'[o], heap', 0) = View(o)
       /\ (last'.op \in {"set_bytes", "drop"}) =>
             \A u \in Slots \ {t} :
                 Live(u) => /\ ViewInBounds(handles'[u], heap')
                            /\ get_bytes(handles'[u], heap', 0) = View(u)]_vars

\* A heap-backed clone was dropped (or replaced) while its original, also
\* heap-backed, lives on with its bytes in place.
C5_Witness ==
    /\ last.op \in {"drop", "set_bytes"}
    /\ last.src # 0
    /\ last.freed # {}
    /\ Live(last.src)
    /\ ~is_interned(Load(handles[last.src]))
    /\ ViewInBounds(handles[last.src], heap)

\* C6: from_utf8 on bytes that are not well-formed UTF-8, inline-sized or
\* heap-sized, reports the error, binds no handle and leaves every handle
\* and the heap as they were; on well-formed bytes it binds a handle that
\* shows those bytes.
C6_RejectsInvalid ==
    [][(last'.op = "from_utf8") =>
          LET bytes == last'.arg[1]
              s     == last'.slot
          IN IF ValidUtf8(bytes)
             THEN /\ ~last'.err
                  /\ handles'[s] # NoHandle
                  /\ get_bytes(handles'[s], heap', 0) = bytes
             ELSE /\ last'.err
                  /\ handles' = handles
                  /\ heap' = heap]_vars

\* Heap-sized bytes that are not UTF-8 were rejected, and the buffer built
\* for them released, while a heap-backed string was held.
C6_Witness ==
    /\ last.op = "from_utf8"
    /\ last.err
    /\ Len(last.arg[1]) > max_intern_len
    /\ last.freed # {}
    /\ \E s \in Slots : /\ Live(s)
                        /\ ~is_interned(Load(handles[s]))
                        /\ ViewInBounds(handles[s], heap)

\* C7: truncate(new_len) and remove(idx) panic whenever the argument is past
\* the end of the string or off a character boundary; a truncate that goes
\* through cuts no multi-byte character, so content that was well-formed
\* UTF-8 before it is well-formed UTF-8 after it.
C7_BoundaryRejected ==
    /\ (/\ last.op \in {"truncate", "remove"}
        /\ \/ last.n > Len(last.arg[1])
           \/ ~is_char_boundary(last.arg[1], last.n)) => last.panicked
    /\ (/\ last.op = "truncate"
        /\ ~last.panicked
        /\ ValidUtf8(last.arg[1])) =>
           (ViewInBounds(handles[last.slot], heap) /\ ValidUtf8(View(last.slot)))

\* C8: when alloc returns null for a heap-sized construction, the program
\* stops without writing through the pointer and without binding a handle,
\* and no live heap-backed handle has the null pointer as its discriminant.
C8_AllocFailureFatal ==
    /\ (/\ last.op = "from_bytes"
        /\ Len(last.arg[1]) > max_intern_len
        /\ last.ptr = NullPtr) =>
           (halted /\ ~last.nullWrite /\ ~Live(last.slot))
    /\ \A s \in Slots :
         (Live(s) /\ ~is_interned(Load(handles[s]))) =>
             read_ptr(Load(handles[s])) # ToWord(NullPtr)

\* The addresses of the buffers that are outstanding.
Outstanding == {a \in HeapAddrs : heap[a].live}
HeapBacked(s) == Live(s) /\ ~is_interned(Load(handles[s]))

\* C11 as stated: set_bytes releases the handle's buffer before it builds the
\* new content, so while a replace is under way the old buffer and the new
\* one are never both outstanding; after it the handle shows the new bytes.
C11_DestroyThenConstruct ==
    /\ Replacing => ~(HeapBacked(last.src) /\ HeapBacked(last.slot))
    /\ Replacing => Cardinality(Outstanding) <= 1
    /\ (last.op = "set_bytes") =>
          (ViewInBounds(handles[last.slot], heap) /\ View(last.slot) = LastBytes)

\* C11 as the code has it: set_bytes builds the new content while the old
\* value is untouched (a heap-sized replace of a heap-backed handle has both
\* buffers outstanding, at different addresses), and then releases exactly
\* the old buffer; after it the handle shows the new bytes, the temporary is
\* gone and the outstanding buffers are those the handle owns.
C11_ConstructThenDestroy ==
    /\ Replacing =>
          /\ ViewInBounds(handles[last.src], heap)
          /\ ViewInBounds(handles[last.slot], heap)
          /\ View(last.slot) = LastBytes
          /\ Outstanding =
                {a \in HeapAddrs : \E s \in {last.src, last.slot} : s \in OwnersOf(a)}
          /\ Cardinality(Outstanding) =
                (IF HeapBacked(last.src) THEN 1 ELSE 0)
                    + (IF HeapBacked(last.slot) THEN 1 ELSE 0)
    /\ (last.op = "set_bytes") =>
          /\ ViewInBounds(handles[last.slot], heap)
          /\ View(last.slot) = LastBytes
          /\ ~Live(TempSlot)
          /\ ~last.badFree
          /\ Outstanding = {a \in HeapAddrs : last.slot \in OwnersOf(a)}
          /\ Cardinality(Outstanding) = (IF HeapBacked(last.slot) THEN 1 ELSE 0)

\* A heap-backed handle was replaced by heap-sized bytes: the old buffer was
\* released and the new one is the only one outstanding.
C11_Witness ==
    /\ last.op = "set_bytes"
    /\ last.freed # {}
    /\ HeapBacked(last.slot)
    /\ last.ptr \in Outstanding
    /\ last.freed \cap Outstanding = {}

\* C12 as stated: for every live handle, an odd decoded discriminant means
\* the length is the decoded value shifted right by 1; an even one is the
\* pointer to the handle's buffer and the length is the len word verbatim.
C12_ShiftOfDecodedWord ==
    \A s \in Slots : Live(s) =>
        LET h == Load(handles[s]) IN
        IF read_ptr(h)[WordBytes] % 2 = 1
        THEN ToWord(len(h)) = ShiftRight1(read_ptr(h))
        ELSE /\ UsizeVal(read_ptr(h)) \in Outstanding
             /\ len(h) = UsizeVal(h.len)

\* C12 as the code has it: an odd decoded discriminant means the length is
\* its least significant byte shifted right by 1, whatever content bytes the
\* rest of the word holds; an even one is the pointer to the handle's buffer
\* and the length is the len word verbatim.  Either way the length is that
\* of the bytes the handle was built from and of the view it gives.
C12_ClassifyDecodes ==
    \A s \in Slots : Live(s) =>
        LET h == Load(handles[s]) IN
        /\ IF read_ptr(h)[WordBytes] % 2 = 1
           THEN /\ is_interned(h)
                /\ len(h) = read_ptr(h)[WordBytes] \div 2
                /\ len(h) <= max_intern_len
           ELSE /\ ~is_interned(h)
                /\ UsizeVal(read_ptr(h)) \in Outstanding
                /\ len(h) = UsizeVal(h.len)
                /\ len(h) = Len(heap[UsizeVal(read_ptr(h))].bytes)
        /\ Len(View(s)) = len(h)
        /\ (last.op \in {"from_bytes", "set_bytes"} /\ last.slot = s) =>
               len(h) = Len(LastBytes)

\* An inline handle whose content is longer than a word, so that content
\* bytes other than zero lie in the discriminant word above the tag byte.
C12_Witness ==
    /\ last.op = "from_bytes"
    /\ is_interned(LastHandle)
    /\ len(LastHandle) > WordBytes
    /\ read_ptr(LastHandle)[1] # 0
    /\ View(last.slot) = LastBytes

\* C13: on a little-endian and on a big-endian host alike, write_ptr(v) for
\* a discriminant value v (not null, on which it panics and stores nothing)
\* leaves v's least significant byte as the physically last byte of the
\* handle, the whole word in big-endian order, and read_ptr gives v back;
\* and the last byte of an inline handle built from n bytes is 2n+1
\* whatever the bytes are.
C13_PortableTag ==
    /\ (last.op = "write_ptr") =>
          LET v == last.arg[1]
              m == handles[last.slot]
          IN /\ last.panicked <=> (v = ToWord(0))
             /\ ~last.panicked =>
                   /\ m[2 * WordBytes] = v[WordBytes]
                   /\ SubSeq(m, WordBytes + 1, 2 * WordBytes) = v
                   /\ read_ptr(Load(m)) = v
    /\ (last.op \in {"new", "from_bytes"} /\ is_interned(LastHandle)) =>
          handles[last.slot][2 * WordBytes] =
              2 * (IF last.op = "new" THEN 0 ELSE Len(LastBytes)) + 1

\* On a little-endian host write_ptr stored a value whose first and last
\* bytes differ into a handle that holds content.
C13_Witness ==
    /\ last.op = "write_ptr"
    /\ ~last.panicked
    /\ littleEndian
    /\ last.arg[1][1] # last.arg[1][WordBytes]
    /\ handles[last.slot][1] # 0
    /\ handles[last.slot][2 * WordBytes] = last.arg[1][WordBytes]

====
